---- MODULE Spec2Model ----
(***************************************************************************)
(* Model of the fraud detector of src/fraud_detector.py: the per-user      *)
(* transaction history with 7-day eviction, the velocity windows, the      *)
(* metadata caches, the ensemble decision, the risk-factor explainer and   *)
(* the predict / batch_predict facade.                                     *)
(*                                                                         *)
(* Time is counted in whole hours on one timeline (datetime values are     *)
(* integers, timedelta(hours=1) = 1).  Scores, weights and thresholds are  *)
(* counted in hundredths, so a weighted sum is counted in 1/10000.         *)
(* A Python dict is a function whose DOMAIN is the set of its keys.        *)
(***************************************************************************)
EXTENDS Integers, Sequences, FiniteSets, TLC

VARIABLES
    transaction_history,  \* self.transaction_history : user_id -> list of records
    user_metadata,        \* self.user_metadata       : user_id -> metadata
    merchant_metadata,    \* self.merchant_metadata   : merchant_id -> metadata
    config,               \* the four constructor arguments
    appended,             \* history variable: every record ever appended, per user, in order
    call,                 \* the last call made on the detector and its arguments
    ret,                  \* what that call returned (or the exception it raised)
    calls,                \* number of predict calls made so far, those of a batch included
    threads,              \* the method calls running concurrently: thread -> program counter and locals
    stats                 \* the global statistics dict of the API server

vars == <<transaction_history, user_metadata, merchant_metadata, config,
          appended, call, ret, calls, threads, stats>>

----------------------------------------------------------------------------
(* Bounds of the model *)

MaxAppends == 2    \* appends made directly on the history store in SpecHistory
MaxBurst   == 7    \* predict calls of the one user of SpecBurst
MaxStats   == 5    \* update_stats calls between two resets in SpecStats

(* Durations, in hours *)
OneHour   == 1
OneDay    == 24
SevenDays == 168
Retention == 168

(* Values the inputs are drawn from *)
Users     == {"U1", "U2"}
Merchants == {"M1", "M2"}
NoneKey   == "None"        \* the dict key None, what .get() gives for a missing key
Times     == {0, 1, 2, 26, 170}
Amounts   == {100, 400}

Empty == << >>

----------------------------------------------------------------------------
(* Sequence helpers: Python list comprehensions, len and sum *)

RECURSIVE Filter(_, _, _)
\* [t for t in history if t['timestamp'] >= bound]
Filter(history, bound, i) ==
    IF i > Len(history) THEN Empty
    ELSE IF history[i].timestamp >= bound
         THEN <<history[i]>> \o Filter(history, bound, i + 1)
         ELSE Filter(history, bound, i + 1)

RECURSIVE SumAmount(_)
\* sum(t['amount'] for t in txns)
SumAmount(txns) ==
    IF txns = Empty THEN 0 ELSE Head(txns).amount + SumAmount(Tail(txns))

\* the mean taken without the emptiness test: 0/0 on an empty window
MeanAmount_Unguarded(txns) ==
    [num |-> SumAmount(txns), den |-> Len(txns)]

\* np.mean([...]) if txns else 0.0, as the fraction num/den (den = 0 would be NaN)
MeanAmount(txns) ==
    IF txns # Empty THEN [num |-> SumAmount(txns), den |-> Len(txns)]
    ELSE [num |-> 0, den |-> 1]

----------------------------------------------------------------------------
(* calculate_velocity_features(user_id, current_time) *)

ZeroVelocity ==
    [txn_count_1h |-> 0, txn_count_24h |-> 0, txn_count_7d |-> 0,
     total_amount_1h |-> 0, total_amount_24h |-> 0, total_amount_7d |-> 0,
     avg_amount_24h |-> [num |-> 0, den |-> 1],
     txns_1h |-> Empty, txns_24h |-> Empty, txns_7d |-> Empty]

\* every window cut at seven days
WindowFilter_OneCutoff(history, current_time, duration) ==
    Filter(history, current_time - SevenDays, 1)

\* the cutoffs exchanged: the one-hour window cut at seven days and back
WindowFilter_Exchanged(history, current_time, duration) ==
    Filter(history, current_time - (SevenDays + OneHour - duration), 1)

\* the comparison written > instead of >=: the record at the boundary is dropped
WindowFilter_Strict(history, current_time, duration) ==
    Filter(history, current_time - duration + 1, 1)

WindowFilter(history, current_time, duration) ==
    Filter(history, current_time - duration, 1)

\* the dict returned at lines 154-162, with the three filtered lists
VelocityResult(txns_1h, txns_24h, txns_7d) ==
    [txn_count_1h |-> Len(txns_1h),
     txn_count_24h |-> Len(txns_24h),
     txn_count_7d |-> Len(txns_7d),
     total_amount_1h |-> SumAmount(txns_1h),
     total_amount_24h |-> SumAmount(txns_24h),
     total_amount_7d |-> SumAmount(txns_7d),
     avg_amount_24h |-> MeanAmount(txns_24h),
     txns_1h |-> txns_1h, txns_24h |-> txns_24h, txns_7d |-> txns_7d]

calculate_velocity_features(th, user_id, current_time) ==
    IF user_id \notin DOMAIN th THEN ZeroVelocity
    ELSE LET history  == th[user_id]
             txns_1h  == WindowFilter(history, current_time, OneHour)
             txns_24h == WindowFilter(history, current_time, OneDay)
             txns_7d  == WindowFilter(history, current_time, SevenDays)
         IN  VelocityResult(txns_1h, txns_24h, txns_7d)

----------------------------------------------------------------------------
(* update_transaction_history(user_id, transaction) *)

HistoryRecord(timestamp, amount, merchant_id) ==
    [timestamp |-> timestamp, amount |-> amount, merchant_id |-> merchant_id]

\* the append without the eviction
AppendEvict_KeepAll(history, rec) ==
    Append(history, rec)

\* the list after the append and the eviction
AppendEvict(history, rec) ==
    Filter(Append(history, rec), rec.timestamp - Retention, 1)

\* if user_id not in self.transaction_history: self.transaction_history[user_id] = []
EnsureHistory(th, user_id) ==
    [k \in DOMAIN th \cup {user_id} |-> IF k \in DOMAIN th THEN th[k] ELSE Empty]

\* the eviction applied to the list of every user
update_transaction_history_EvictAll(th, user_id, rec) ==
    LET ensured == EnsureHistory(th, user_id)
    IN  [k \in DOMAIN ensured |->
            IF k = user_id THEN AppendEvict(ensured[k], rec)
            ELSE Filter(ensured[k], rec.timestamp - Retention, 1)]

\* the dict after the call
update_transaction_history(th, user_id, rec) ==
    LET ensured == EnsureHistory(th, user_id)
    IN  [ensured EXCEPT ![user_id] = AppendEvict(ensured[user_id], rec)]

\* the history variable: the record is added to the user's log
LogAppend(log, user_id, rec) ==
    [k \in DOMAIN log \cup {user_id} |->
        IF k = user_id
        THEN Append(IF user_id \in DOMAIN log THEN log[user_id] ELSE Empty, rec)
        ELSE log[k]]

RECURSIVE TotalLen(_, _)
TotalLen(f, keys) ==
    IF keys = {} THEN 0
    ELSE LET k == CHOOSE x \in keys : TRUE
         IN  Len(f[k]) + TotalLen(f, keys \ {k})

----------------------------------------------------------------------------
(* The detector as constructed by __init__ *)

DefaultConfig ==
    [xgboost_weight |-> 70, autoencoder_weight |-> 30,
     fraud_threshold |-> 50, high_risk_threshold |-> 75]

\* the stats dict of api_server.py lines 52-58 (and 272-278); the running
\* average of the processing time is a fraction
ZeroStats ==
    [total_requests |-> 0, fraud_detected |-> 0, legitimate_transactions |-> 0,
     avg_processing_time_ms |-> [num |-> 0, den |-> 1]]

NoCall == [op |-> "none"]
NoRet  == [kind |-> "none"]

EmptyDetector ==
    /\ transaction_history = Empty
    /\ user_metadata = Empty
    /\ merchant_metadata = Empty
    /\ appended = Empty
    /\ call = NoCall
    /\ ret = NoRet
    /\ calls = 0
    /\ threads = Empty
    /\ stats = ZeroStats

----------------------------------------------------------------------------
(* SpecHistory: the history store and the velocity aggregator called       *)
(* directly, any user, any timestamp order.                                *)

InitHistory ==
    /\ EmptyDetector
    /\ config = DefaultConfig

UpdateHistory(user_id, timestamp, amount, merchant_id) ==
    LET rec == HistoryRecord(timestamp, amount, merchant_id)
    IN  /\ TotalLen(appended, DOMAIN appended) < MaxAppends
        /\ transaction_history' = update_transaction_history(transaction_history, user_id, rec)
        /\ appended' = LogAppend(appended, user_id, rec)
        /\ call' = [op |-> "update_transaction_history", user_id |-> user_id,
                    timestamp |-> timestamp]
        /\ ret' = NoRet
        /\ UNCHANGED <<user_metadata, merchant_metadata, config, calls, threads, stats>>

Velocity(user_id, current_time) ==
    /\ call' = [op |-> "calculate_velocity_features", user_id |-> user_id,
                current_time |-> current_time]
    /\ ret' = [kind |-> "velocity",
               velocity |-> calculate_velocity_features(transaction_history, user_id, current_time)]
    /\ UNCHANGED <<transaction_history, user_metadata, merchant_metadata, config, appended, calls, threads, stats>>

NextHistory ==
    \/ \E u \in Users, t \in Times, a \in Amounts : UpdateHistory(u, t, a, "M1")
    \/ \E u \in Users, t \in Times : Velocity(u, t)

SpecHistory == InitHistory /\ [][NextHistory]_vars

----------------------------------------------------------------------------
(* The ensemble decision of predict: steps 5 and 6 *)

\* weights and thresholds the detector may be constructed with, in hundredths:
\* the defaults, weights that sum to 2, a negative weight; the default
\* thresholds, inverted thresholds, equal thresholds
WeightPairs    == {<<70, 30>>, <<100, 100>>, <<130, -30>>}
ThresholdPairs == {<<50, 75>>, <<75, 50>>, <<50, 50>>}

Configs ==
    {[xgboost_weight |-> w[1], autoencoder_weight |-> w[2],
      fraud_threshold |-> t[1], high_risk_threshold |-> t[2]] :
        w \in WeightPairs, t \in ThresholdPairs}

\* what predict_proba and predict_anomaly_score return, in hundredths
Scores == {0, 20, 50, 90, 95, 100}

\* the second term subtracted instead of added
EnsembleScore_Minus(cfg, xgboost_score, autoencoder_score) ==
    cfg.xgboost_weight * xgboost_score - cfg.autoencoder_weight * autoencoder_score

\* each weight applied to the other model's score
EnsembleScore_Swapped(cfg, xgboost_score, autoencoder_score) ==
    cfg.xgboost_weight * autoencoder_score + cfg.autoencoder_weight * xgboost_score

\* fraud_score, in 1/10000
EnsembleScore(cfg, xgboost_score, autoencoder_score) ==
    cfg.xgboost_weight * xgboost_score + cfg.autoencoder_weight * autoencoder_score

IsFraud(cfg, fraud_score) ==
    fraud_score >= cfg.fraud_threshold * 100

\* the two tests in the other order
RiskLevel_MediumFirst(cfg, fraud_score) ==
    IF fraud_score >= cfg.fraud_threshold * 100 THEN "MEDIUM"
    ELSE IF fraud_score >= cfg.high_risk_threshold * 100 THEN "HIGH"
    ELSE "LOW"

RiskLevel(cfg, fraud_score) ==
    IF fraud_score >= cfg.high_risk_threshold * 100 THEN "HIGH"
    ELSE IF fraud_score >= cfg.fraud_threshold * 100 THEN "MEDIUM"
    ELSE "LOW"

Decide(cfg, xgboost_score, autoencoder_score) ==
    LET fraud_score == EnsembleScore(cfg, xgboost_score, autoencoder_score)
    IN  [fraud_score |-> fraud_score,
         xgboost_score |-> xgboost_score,
         autoencoder_score |-> autoencoder_score,
         is_fraud |-> IsFraud(cfg, fraud_score),
         risk_level |-> RiskLevel(cfg, fraud_score)]

(* SpecDecide: any configuration, any pair of component scores *)

InitDecide ==
    /\ EmptyDetector
    /\ config \in Configs

DecideStep(xgboost_score, autoencoder_score) ==
    /\ call' = [op |-> "decide", xgboost_score |-> xgboost_score,
                autoencoder_score |-> autoencoder_score]
    /\ ret' = [kind |-> "decision",
               result |-> Decide(config, xgboost_score, autoencoder_score),
               before |-> IF call.op = "decide"
                          THEN [kind |-> "decision",
                                xgboost_score |-> call.xgboost_score,
                                autoencoder_score |-> call.autoencoder_score,
                                result |-> ret.result]
                          ELSE NoRet]
    /\ UNCHANGED <<transaction_history, user_metadata, merchant_metadata, config, appended, calls, threads, stats>>

NextDecide ==
    \E x \in Scores, a \in Scores : DecideStep(x, a)

SpecDecide == InitDecide /\ [][NextDecide]_vars

----------------------------------------------------------------------------
(* _identify_risk_factors(transaction, features) *)

Sentinel == "No specific risk factors identified"

\* one factor when the test holds, nothing otherwise
When(test, factor) == IF test THEN <<factor>> ELSE Empty

\* the list returned as it is, empty or not
OrSentinel_Missing(factors) == factors

\* factors if factors else [sentinel]
OrSentinel(factors) == IF factors # Empty THEN factors ELSE <<Sentinel>>

\* the two amount tests as two separate if statements
AmountFactor_Independent(amount, avg_amount) ==
    When(avg_amount.num > 0 /\ amount * avg_amount.den > avg_amount.num * 3,
         "Unusual transaction amount (3x average)")
    \o When(amount > 1000, "High transaction amount")

\* the if / elif of lines 290-293: at most one of the two amount factors
AmountFactor(amount, avg_amount) ==
    IF avg_amount.num > 0 /\ amount * avg_amount.den > avg_amount.num * 3
    THEN <<"Unusual transaction amount (3x average)">>
    ELSE IF amount > 1000 THEN <<"High transaction amount">>
    ELSE Empty

\* etxn is the enriched transaction: amount (0 when the key is missing),
\* avg_amount_24h as a fraction, txn_count_1h and the two metadata records;
\* geographic is the outcome of np.random.random() < 0.1
identify_risk_factors(etxn, geographic) ==
    LET amount     == etxn.amount
        avg_amount == etxn.avg_amount_24h
        factors ==
            AmountFactor(amount, avg_amount)
            \o When(etxn.txn_count_1h > 5, "High velocity spending (>5 txns/hour)")
            \o When(etxn.merchant_metadata.risk_score > 70, "High-risk merchant")
            \o When(~ etxn.merchant_metadata.is_verified, "Unverified merchant")
            \o When(etxn.user_metadata.account_age_days < 30, "New user account (<30 days)")
            \o When(~ etxn.user_metadata.is_verified, "Unverified user account")
            \o When(geographic, "Geographic anomaly detected")
    IN  OrSentinel(factors)

(* SpecExplain: the explainer applied to any enriched transaction *)

UserMeta(age, verified) ==
    [account_age_days |-> age, total_transactions |-> 10,
     avg_transaction_amount |-> 50, country |-> "US", is_verified |-> verified]

MerchantMeta(risk, verified) ==
    [merchant_category |-> "retail", risk_score |-> risk, is_verified |-> verified]

ExplainAmounts  == {0, 100, 400, 1500}
ExplainAverages == {[num |-> 0, den |-> 1], [num |-> 200, den |-> 2]}
ExplainCounts   == {0, 5, 6}
ExplainAges     == {10, 30}
ExplainRisks    == {70, 90}

EnrichedInputs ==
    [amount : ExplainAmounts, avg_amount_24h : ExplainAverages,
     txn_count_1h : ExplainCounts,
     merchant_metadata : {MerchantMeta(r, v) : r \in ExplainRisks, v \in BOOLEAN},
     user_metadata : {UserMeta(g, v) : g \in ExplainAges, v \in BOOLEAN}]

InitExplain ==
    /\ EmptyDetector
    /\ config = DefaultConfig

ExplainStep(etxn, geographic) ==
    /\ call' = [op |-> "identify_risk_factors", transaction |-> etxn,
                geographic |-> geographic]
    /\ ret' = [kind |-> "factors", factors |-> identify_risk_factors(etxn, geographic),
               before |-> IF call.op = "identify_risk_factors" /\ call.transaction = etxn
                          THEN [kind |-> "factors", factors |-> ret.factors]
                          ELSE NoRet]
    /\ UNCHANGED <<transaction_history, user_metadata, merchant_metadata, config, appended, calls, threads, stats>>

NextExplain ==
    \E etxn \in EnrichedInputs, g \in BOOLEAN : ExplainStep(etxn, g)

SpecExplain == InitExplain /\ [][NextExplain]_vars

----------------------------------------------------------------------------
(* Transactions as predict receives them: a dict with some of its keys     *)
(* present.  The timestamp is an ISO string that parses ("str"), a string  *)
(* that does not ("bad"), or None ("none").                                *)

Has(txn, key) == key \in txn.keys

\* transaction.get(key, default)
Get(txn, key, default) == IF Has(txn, key) THEN txn[key] ELSE default

AllKeys == {"transaction_id", "user_id", "merchant_id", "amount", "timestamp"}

Transaction(tid, user_id, merchant_id, amount, kind, t, keys) ==
    [transaction_id |-> tid, user_id |-> user_id, merchant_id |-> merchant_id,
     amount |-> amount, timestamp |-> [kind |-> kind, t |-> t], keys |-> keys]

(* enrich_transaction(transaction) *)

\* the value looked up again on every call, the cached one ignored
CacheFill_Refresh(cache, id, fresh) ==
    [k \in DOMAIN cache \cup {id} |-> IF k = id THEN fresh ELSE cache[k]]

\* the cache after a lookup of id: filled with the fresh value on a miss
CacheFill(cache, id, fresh) ==
    IF id \in DOMAIN cache THEN cache
    ELSE [k \in DOMAIN cache \cup {id} |-> IF k = id THEN fresh ELSE cache[k]]

enrich_transaction(um, mm, txn, freshUser, freshMerchant) ==
    LET user_id     == Get(txn, "user_id", NoneKey)
        merchant_id == Get(txn, "merchant_id", NoneKey)
        um2         == CacheFill(um, user_id, freshUser)
        mm2         == CacheFill(mm, merchant_id, freshMerchant)
    IN  [user_metadata |-> um2, merchant_metadata |-> mm2,
         enriched_user |-> um2[user_id], enriched_merchant |-> mm2[merchant_id]]

(* predict(transaction) *)

PyBool(b) == IF b THEN "True" ELSE "False"

\* the steps of predict in the order of lines 222-274
Pipeline ==
    <<"enrich", "velocity", "features", "scores", "decide", "explain", "append", "return">>

\* the first n steps: those completed when the call returns or raises
StepsDone(n) == SubSeq(Pipeline, 1, n)

\* the history appended to before the velocity statistics are computed
HistoryAtVelocity_Updated(th, user_id, rec) ==
    update_transaction_history(th, user_id, rec)

\* the history dict the velocity statistics are computed on at lines
\* 226-229: the one of before the call, the append comes at line 259
HistoryAtVelocity(th, user_id, rec) == th

\* the transaction recorded before the models are asked
HistoryAtScoring_Updated(th, user_id, rec) ==
    update_transaction_history(th, user_id, rec)

\* the history dict when the models are asked at lines 236-237: still the
\* one of before the call
HistoryAtScoring(th, user_id, rec) == th

Raised(th, um, mm, log, error, done) ==
    [raised |-> TRUE, error |-> error, steps |-> StepsDone(done),
     transaction_history |-> th, user_metadata |-> um, merchant_metadata |-> mm,
     appended |-> log]

\* d holds what the call draws from outside: the clock, the two simulated
\* lookups, the two model scores (or scorer = "raises" when a model throws)
\* and the random geographic factor
predict(th, um, mm, log, cfg, txn, d) ==
    IF Has(txn, "timestamp") /\ txn.timestamp.kind = "bad"
    THEN Raised(th, um, mm, log, "ValueError", 0)
    ELSE
    LET timestamp == IF Has(txn, "timestamp") THEN txn.timestamp
                     ELSE [kind |-> "str", t |-> d.now]
        e   == enrich_transaction(um, mm, txn, d.user_meta, d.merchant_meta)
        um2 == e.user_metadata
        mm2 == e.merchant_metadata
    IN  IF ~ Has(txn, "user_id") THEN Raised(th, um2, mm2, log, "KeyError", 1)
        ELSE IF timestamp.kind = "none"
        THEN IF txn.user_id \in DOMAIN th
             THEN Raised(th, um2, mm2, log, "TypeError", 1)
             ELSE Raised(th, um2, mm2, log, "AttributeError", 2)
        ELSE
        LET user_id  == txn.user_id
            current  == HistoryRecord(timestamp.t, Get(txn, "amount", 0),
                                      Get(txn, "merchant_id", NoneKey))
            velocity == calculate_velocity_features(
                            HistoryAtVelocity(th, user_id, current), user_id, timestamp.t)
            etxn     == [amount |-> Get(txn, "amount", 0),
                         avg_amount_24h |-> velocity.avg_amount_24h,
                         txn_count_1h |-> velocity.txn_count_1h,
                         merchant_metadata |-> e.enriched_merchant,
                         user_metadata |-> e.enriched_user]
            decision == Decide(cfg, d.xgboost_score, d.autoencoder_score)
            factors  == identify_risk_factors(etxn, d.geographic)
        IN  IF d.scorer = "raises"
            THEN Raised(HistoryAtScoring(th, user_id, current), um2, mm2, log,
                        "Exception", 3)
            ELSE IF ~ Has(txn, "amount")
            THEN Raised(EnsureHistory(th, user_id), um2, mm2, log, "KeyError", 6)
            ELSE
            LET rec == HistoryRecord(timestamp.t, txn.amount, Get(txn, "merchant_id", NoneKey))
            IN  [raised |-> FALSE, steps |-> StepsDone(8),
                 transaction_history |-> update_transaction_history(th, user_id, rec),
                 user_metadata |-> um2, merchant_metadata |-> mm2,
                 appended |-> LogAppend(log, user_id, rec),
                 velocity |-> velocity,
                 enriched |-> [user_metadata |-> e.enriched_user,
                               merchant_metadata |-> e.enriched_merchant],
                 result |->
                    [transaction_id |-> Get(txn, "transaction_id", "UNKNOWN"),
                     fraud_score |-> decision.fraud_score,
                     xgboost_score |-> decision.xgboost_score,
                     autoencoder_score |-> decision.autoencoder_score,
                     is_fraud |-> PyBool(decision.is_fraud),
                     risk_level |-> decision.risk_level,
                     risk_factors |-> factors,
                     timestamp |-> timestamp.t]]

(* batch_predict(transactions): the slot of one item, and the loop *)

ErrorSlot(txn, error) ==
    [transaction_id |-> Get(txn, "transaction_id", "UNKNOWN"),
     error |-> error, is_fraud |-> "None"]

\* a failed item leaves no slot
AfterItem_DropFailed(results, txn, outcome) ==
    IF outcome.raised THEN results ELSE Append(results, outcome.result)

\* results.append(result), or the error slot in the except branch
AfterItem(results, txn, outcome) ==
    IF outcome.raised THEN Append(results, ErrorSlot(txn, outcome.error))
    ELSE Append(results, outcome.result)

\* the loop left at the first failure
NextItem_Abort(i, n, outcome) == IF outcome.raised THEN n + 1 ELSE i + 1

\* the for loop goes on to the next transaction whatever happened
NextItem(i, n, outcome) == i + 1

(* get_stats() *)

\* the stored records counted as users
get_stats_RecordsAsUsers(th, um, mm, cfg) ==
    [users_tracked |-> Cardinality(DOMAIN um),
     merchants_tracked |-> Cardinality(DOMAIN mm),
     users_with_history |-> TotalLen(th, DOMAIN th),
     total_historical_transactions |-> Cardinality(DOMAIN th),
     model_weights |-> [xgboost |-> cfg.xgboost_weight,
                        autoencoder |-> cfg.autoencoder_weight],
     thresholds |-> [fraud |-> cfg.fraud_threshold,
                     high_risk |-> cfg.high_risk_threshold]]

\* the sizes of the three dicts, the records of all lists, the configuration
get_stats(th, um, mm, cfg) ==
    [users_tracked |-> Cardinality(DOMAIN um),
     merchants_tracked |-> Cardinality(DOMAIN mm),
     users_with_history |-> Cardinality(DOMAIN th),
     total_historical_transactions |-> TotalLen(th, DOMAIN th),
     model_weights |-> [xgboost |-> cfg.xgboost_weight,
                        autoencoder |-> cfg.autoencoder_weight],
     thresholds |-> [fraud |-> cfg.fraud_threshold,
                     high_risk |-> cfg.high_risk_threshold]]

----------------------------------------------------------------------------
(* Spec: the facade.  predict and batch_predict are called one after the   *)
(* other on a detector constructed with the default arguments; a batch is  *)
(* processed item by item and nothing else runs until it has returned.     *)

MaxCalls == 2    \* predict calls in one run, those of a batch included
MaxBatch == 2    \* transactions in one batch

FacadeTimes == {1, 170}
Clock       == {2}

\* what one call draws from outside: the two simulated lookups, the two
\* model scores and the random geographic factor
DrawProfiles ==
    {[user_meta |-> UserMeta(30, TRUE), merchant_meta |-> MerchantMeta(20, TRUE),
      xgboost_score |-> 20, autoencoder_score |-> 20, geographic |-> FALSE,
      scorer |-> "ok"],
     [user_meta |-> UserMeta(999, FALSE), merchant_meta |-> MerchantMeta(90, FALSE),
      xgboost_score |-> 95, autoencoder_score |-> 90, geographic |-> TRUE,
      scorer |-> "ok"],
     [user_meta |-> UserMeta(30, TRUE), merchant_meta |-> MerchantMeta(20, TRUE),
      xgboost_score |-> 20, autoencoder_score |-> 20, geographic |-> FALSE,
      scorer |-> "raises"]}

WellFormed ==
    {Transaction("T1", u, m, 100, "str", t, AllKeys) :
        u \in Users, m \in Merchants, t \in FacadeTimes}

\* transactions on which predict raises: unparsable timestamp, timestamp
\* None, no amount, no user_id
Malformed ==
    {Transaction("T2", "U1", "M1", 100, "bad", 0, AllKeys),
     Transaction("T2", "U1", "M1", 100, "none", 0, AllKeys),
     Transaction("T2", "U2", "M1", 100, "str", 1, AllKeys \ {"amount"}),
     Transaction("T2", NoneKey, "M2", 100, "str", 1, AllKeys \ {"user_id"})}

\* transactions with an optional key left out, which predict accepts
Sparse ==
    {Transaction("T1", "U1", "M1", 100, "str", 0, AllKeys \ {"timestamp"}),
     Transaction("T1", "U1", NoneKey, 100, "str", 1, AllKeys \ {"merchant_id"}),
     Transaction("UNKNOWN", "U1", "M1", 100, "str", 1, AllKeys \ {"transaction_id"})}

\* a transaction with an amount that is not positive, which predict accepts
NonPositive ==
    {Transaction("T3", "U2", "M2", -5, "str", 1, AllKeys)}

Transactions == WellFormed \cup Malformed \cup Sparse \cup NonPositive

\* what a batch is made of
BatchTransactions ==
    {txn \in WellFormed : txn.merchant_id = "M1" /\ txn.timestamp.t = 1}
    \cup {txn \in Malformed : txn.timestamp.kind # "none"}
    \cup {txn \in Sparse : ~ Has(txn, "transaction_id")}

Batches == UNION {[1..n -> BatchTransactions] : n \in 0..MaxBatch}

\* the draws a call on txn can depend on in the current state
DrawsFor(txn) ==
    {[now |-> now, user_meta |-> p.user_meta, merchant_meta |-> p.merchant_meta,
      xgboost_score |-> p.xgboost_score, autoencoder_score |-> p.autoencoder_score,
      geographic |-> p.geographic, scorer |-> p.scorer] :
        now \in Clock, p \in DrawProfiles}

Idle == IF call.op = "batch_predict" THEN ret.next > Len(call.transactions) ELSE TRUE

Init ==
    /\ EmptyDetector
    /\ config = DefaultConfig

Install(outcome) ==
    /\ transaction_history' = outcome.transaction_history
    /\ user_metadata' = outcome.user_metadata
    /\ merchant_metadata' = outcome.merchant_metadata
    /\ appended' = outcome.appended
    /\ calls' = calls + 1

Predict(txn, d) ==
    LET outcome == predict(transaction_history, user_metadata, merchant_metadata,
                           appended, config, txn, d)
    IN  /\ Idle
        /\ calls < MaxCalls
        /\ Install(outcome)
        /\ call' = [op |-> "predict", transaction |-> txn]
        /\ ret' = IF outcome.raised
                  THEN [kind |-> "raised", error |-> outcome.error,
                        steps |-> outcome.steps]
                  ELSE [kind |-> "result", result |-> outcome.result,
                        velocity |-> outcome.velocity,
                        enriched |-> outcome.enriched,
                        steps |-> outcome.steps]
        /\ UNCHANGED <<config, threads, stats>>

\* every item run on the detector as it was when the batch began
ItemDetector_Snapshot(start, current) == start

\* self.predict(txn) at line 333: an item runs on the detector as the
\* earlier items of the batch left it
ItemDetector(start, current) == current

\* ret keeps, for the properties, the detector at the start of the batch,
\* the draws of the items and the 7-day count each item's velocity step
\* reported (-1 for an item that raised)
BatchBegin(txns) ==
    /\ Idle
    /\ calls + Len(txns) <= MaxCalls
    /\ call' = [op |-> "batch_predict", transactions |-> txns]
    /\ ret' = [kind |-> "batch", results |-> Empty, next |-> 1, draws |-> Empty,
               counted |-> Empty,
               start |-> [transaction_history |-> transaction_history,
                          user_metadata |-> user_metadata,
                          merchant_metadata |-> merchant_metadata,
                          appended |-> appended]]
    /\ UNCHANGED <<transaction_history, user_metadata, merchant_metadata, config,
                   appended, calls, threads, stats>>

BatchItem(d) ==
    LET txn     == call.transactions[ret.next]
        on      == ItemDetector(ret.start,
                                [transaction_history |-> transaction_history,
                                 user_metadata |-> user_metadata,
                                 merchant_metadata |-> merchant_metadata,
                                 appended |-> appended])
        outcome == predict(on.transaction_history, on.user_metadata,
                           on.merchant_metadata, on.appended, config, txn, d)
    IN  /\ Install(outcome)
        /\ ret' = [kind |-> "batch",
                   results |-> AfterItem(ret.results, txn, outcome),
                   next |-> NextItem(ret.next, Len(call.transactions), outcome),
                   draws |-> Append(ret.draws, d), start |-> ret.start,
                   counted |-> Append(ret.counted,
                                      IF outcome.raised THEN -1
                                      ELSE outcome.velocity.txn_count_7d)]
        /\ UNCHANGED <<call, config, threads, stats>>

Next ==
    \/ \E txn \in Transactions : \E d \in DrawsFor(txn) : Predict(txn, d)
    \/ \E txns \in Batches : BatchBegin(txns)
    \/ /\ ~ Idle
       /\ \E d \in DrawsFor(call.transactions[ret.next]) : BatchItem(d)

Spec == Init /\ [][Next]_vars

(* SpecBurst: one user sends a run of transactions within one hour *)

\* transactions of user U2 at two times one hour apart
BurstTransactions ==
    {Transaction("T1", "U2", "M1", 100, "str", t, AllKeys) : t \in {1, 2}}

BurstPredict(txn, d) ==
    LET outcome == predict(transaction_history, user_metadata, merchant_metadata,
                           appended, config, txn, d)
    IN  /\ calls < MaxBurst
        /\ Install(outcome)
        /\ call' = [op |-> "predict", transaction |-> txn]
        /\ ret' = IF outcome.raised
                  THEN [kind |-> "raised", error |-> outcome.error,
                        steps |-> outcome.steps]
                  ELSE [kind |-> "result", result |-> outcome.result,
                        velocity |-> outcome.velocity,
                        enriched |-> outcome.enriched,
                        steps |-> outcome.steps]
        /\ UNCHANGED <<config, threads, stats>>

NextBurst ==
    \E txn \in BurstTransactions : \E d \in DrawsFor(txn) : BurstPredict(txn, d)

SpecBurst == Init /\ [][NextBurst]_vars

----------------------------------------------------------------------------
(* Properties of the history store and the velocity windows *)

Windows == {OneHour, OneDay, SevenDays}

StoredFor(user_id) ==
    IF user_id \in DOMAIN transaction_history THEN transaction_history[user_id] ELSE Empty

LogFor(user_id) ==
    IF user_id \in DOMAIN appended THEN appended[user_id] ELSE Empty

IsVelocityCall == call.op = "calculate_velocity_features"
IsUpdateCall   == call.op = "update_transaction_history"

\* the records the last velocity call put in the window of the given duration
Counted(duration) ==
    IF duration = OneHour THEN ret.velocity.txns_1h
    ELSE IF duration = OneDay THEN ret.velocity.txns_24h
    ELSE ret.velocity.txns_7d

CountOf(duration) ==
    IF duration = OneHour THEN ret.velocity.txn_count_1h
    ELSE IF duration = OneDay THEN ret.velocity.txn_count_24h
    ELSE ret.velocity.txn_count_7d

TotalOf(duration) ==
    IF duration = OneHour THEN ret.velocity.total_amount_1h
    ELSE IF duration = OneDay THEN ret.velocity.total_amount_24h
    ELSE ret.velocity.total_amount_7d

\* positions of the records of a list that satisfy a test on the timestamp
NotOlderThan(list, bound) == {i \in 1..Len(list) : list[i].timestamp >= bound}
OlderThan(list, bound)    == {i \in 1..Len(list) : list[i].timestamp < bound}

\* C1: right after update_transaction_history(user, txn) with txn timestamp
\* now, no record stored for that user is older than now - 7 days.
C1_EvictionInvariant ==
    IsUpdateCall =>
        OlderThan(StoredFor(call.user_id), call.timestamp - 7 * 24) = {}

\* an append has just evicted a record that had been appended earlier
C1_Witness ==
    /\ IsUpdateCall
    /\ Len(StoredFor(call.user_id)) < Len(LogFor(call.user_id))

\* C2: a record appended at t1 is not counted by a velocity computation at
\* t2 > t1 in a window of duration d when t2 - t1 > d: no such record is in
\* the window's list, and the window's count is at most the number of
\* appended records that are not that old.
C2_WindowExclusion ==
    IsVelocityCall =>
        \A d \in Windows :
            /\ \A i \in 1..Len(Counted(d)) :
                   ~ (call.current_time - Counted(d)[i].timestamp > d)
            /\ CountOf(d) <= Cardinality(NotOlderThan(LogFor(call.user_id),
                                                      call.current_time - d))

\* a stored record lies more than one hour, another more than a day before
\* the query time and the windows leave them out
C2_Witness ==
    /\ IsVelocityCall
    /\ \E i \in 1..Len(StoredFor(call.user_id)) :
           LET t1 == StoredFor(call.user_id)[i].timestamp
           IN  t1 < call.current_time /\ call.current_time - t1 > OneDay
    /\ CountOf(OneDay) < CountOf(SevenDays)
    /\ CountOf(OneHour) = 0

\* the records of a user's log that no later append of the log has evicted:
\* an append with timestamp t removes what is older than t - 7 days
Survives(log, i) ==
    \A j \in (i + 1)..Len(log) : log[i].timestamp >= log[j].timestamp - 7 * 24

RECURSIVE Pick(_, _, _)
\* the sub-list of log at the positions in keep, order kept
Pick(log, keep, i) ==
    IF i > Len(log) THEN Empty
    ELSE IF i \in keep THEN <<log[i]>> \o Pick(log, keep, i + 1)
         ELSE Pick(log, keep, i + 1)

\* C3 as stated: a velocity computation at now counts, in each window d,
\* every record ever appended for the user with timestamp >= now - d, in
\* append order, whatever the timestamp order of the appends.
C3_Original ==
    IsVelocityCall =>
        \A d \in Windows :
            LET log == LogFor(call.user_id)
            IN  Counted(d) = Pick(log, NotOlderThan(log, call.current_time - d), 1)

\* C3 amended: a velocity computation at now counts, in each window d, every
\* record appended for the user with timestamp >= now - d that no later
\* append for that user has evicted (none carried a timestamp more than
\* 7 days after the record's), the record exactly at now - d included, in
\* append order, and the count is their number.
C3_WindowInclusion ==
    IsVelocityCall =>
        \A d \in Windows :
            LET log  == LogFor(call.user_id)
                keep == {i \in NotOlderThan(log, call.current_time - d) : Survives(log, i)}
            IN  /\ Counted(d) = Pick(log, keep, 1)
                /\ CountOf(d) = Cardinality(keep)

\* appends out of timestamp order, and a record exactly at the boundary of
\* each window is counted
C3_Witness ==
    /\ IsVelocityCall
    /\ LET log == LogFor(call.user_id)
       IN  /\ \E i \in 1..Len(log) : \E j \in (i + 1)..Len(log) :
                   log[j].timestamp < log[i].timestamp
           /\ \E d \in Windows : \E i \in 1..Len(Counted(d)) :
                   /\ Counted(d)[i].timestamp = call.current_time - d
                   /\ CountOf(d) >= 2

\* C4: calculate_velocity_features returns, never raises; for an unseen user
\* every count and sum is 0 and the average is the number 0; for any user a
\* window that no stored record falls in has count 0 and sum 0, and the
\* 24h average is the number 0 (not 0/0) when the 24h window is empty.
C4_ZeroedStatistics ==
    IsVelocityCall =>
        /\ ret.kind = "velocity"
        /\ ret.velocity.avg_amount_24h.den # 0
        /\ \A d \in Windows :
               NotOlderThan(StoredFor(call.user_id), call.current_time - d) = {}
                   => CountOf(d) = 0 /\ TotalOf(d) = 0
        /\ NotOlderThan(StoredFor(call.user_id), call.current_time - OneDay) = {}
               => ret.velocity.avg_amount_24h.num = 0
        /\ call.user_id \notin DOMAIN transaction_history
               => /\ \A d \in Windows : CountOf(d) = 0 /\ TotalOf(d) = 0
                  /\ ret.velocity.avg_amount_24h.num = 0

\* a user with stored records, none of them in the 24h window
C4_Witness ==
    /\ IsVelocityCall
    /\ StoredFor(call.user_id) # Empty
    /\ NotOlderThan(StoredFor(call.user_id), call.current_time - OneDay) = {}
    /\ ret.velocity.avg_amount_24h = [num |-> 0, den |-> 1]

\* an unseen user while another user has history
C4_WitnessUnseen ==
    /\ IsVelocityCall
    /\ call.user_id \notin DOMAIN transaction_history
    /\ transaction_history # Empty
    /\ ret.velocity.txn_count_7d = 0

----------------------------------------------------------------------------
(* Properties of the ensemble decision *)

IsDecideCall == call.op = "decide"

\* the weighted sum, written out from the configuration and the two scores
WeightedSum ==
    config.xgboost_weight * call.xgboost_score
    + config.autoencoder_weight * call.autoencoder_score

Severity(risk_level) ==
    IF risk_level = "LOW" THEN 0 ELSE IF risk_level = "MEDIUM" THEN 1 ELSE 2

\* C5: with ensemble = weightA*scoreA + weightB*scoreB, risk_level is HIGH
\* iff ensemble >= high_risk_threshold, MEDIUM iff fraud_threshold <=
\* ensemble < high_risk_threshold, LOW otherwise; is_fraud iff ensemble >=
\* fraud_threshold; with high_risk_threshold >= fraud_threshold, is_fraud
\* exactly when the level is MEDIUM or HIGH.
C5_DecisionRule ==
    IsDecideCall =>
        LET r    == ret.result
            ft   == config.fraud_threshold * 100
            ht   == config.high_risk_threshold * 100
        IN  /\ r.fraud_score = WeightedSum
            /\ (r.risk_level = "HIGH") <=> (WeightedSum >= ht)
            /\ (r.risk_level = "MEDIUM") <=> (ft <= WeightedSum /\ WeightedSum < ht)
            /\ (r.risk_level = "LOW") <=> ~ (WeightedSum >= ht) /\ ~ (ft <= WeightedSum /\ WeightedSum < ht)
            /\ r.is_fraud <=> (WeightedSum >= ft)
            /\ ht >= ft => (r.is_fraud <=> r.risk_level \in {"MEDIUM", "HIGH"})

\* each of the three levels is returned, and a score exactly on a threshold
C5_Witness ==
    /\ IsDecideCall
    /\ config.fraud_threshold < config.high_risk_threshold
    /\ ret.result.risk_level = "MEDIUM"
    /\ ret.result.is_fraud
    /\ ret.result.fraud_score = config.fraud_threshold * 100

C5_WitnessHigh ==
    /\ IsDecideCall
    /\ ret.result.risk_level = "HIGH"
    /\ config.high_risk_threshold < config.fraud_threshold
    /\ ~ ret.result.is_fraud

\* C6 as stated: the fraud_score of every result lies in [0,1], whatever the
\* configured weights and the component scores.
C6_Original ==
    IsDecideCall => 0 <= ret.result.fraud_score /\ ret.result.fraud_score <= 10000

\* the last two decisions: one score raised, the other held
ScoreRaised ==
    /\ IsDecideCall
    /\ ret.before.kind = "decision"
    /\ \/ call.xgboost_score >= ret.before.xgboost_score
          /\ call.autoencoder_score = ret.before.autoencoder_score
       \/ call.autoencoder_score >= ret.before.autoencoder_score
          /\ call.xgboost_score = ret.before.xgboost_score

NeverLower ==
    /\ ret.result.fraud_score >= ret.before.result.fraud_score
    /\ Severity(ret.result.risk_level) >= Severity(ret.before.result.risk_level)

\* C7 as stated: for any configured weights and thresholds, raising one
\* component score with the other held never lowers fraud_score nor moves
\* risk_level to a lower severity.
C7_Original == ScoreRaised => NeverLower

\* C7 amended: for any configured weights that are both non-negative, and
\* any thresholds, raising one component score with the other held never
\* lowers fraud_score nor moves risk_level to a lower severity.
C7_TieringMonotonicity ==
    config.xgboost_weight >= 0 /\ config.autoencoder_weight >= 0 /\ ScoreRaised
        => NeverLower

\* a score was raised between two decisions and the level went up two steps
C7_Witness ==
    /\ config.xgboost_weight >= 0 /\ config.autoencoder_weight >= 0
    /\ ScoreRaised
    /\ call.autoencoder_score > ret.before.autoencoder_score
    /\ ret.before.result.risk_level = "LOW"
    /\ ret.result.risk_level = "HIGH"
    /\ ret.result.fraud_score > ret.before.result.fraud_score

----------------------------------------------------------------------------
(* Properties of the explainer *)

IsExplainCall == call.op = "identify_risk_factors"

InList(x, list) == \E i \in 1..Len(list) : list[i] = x

\* no rule of the explainer holds of the last call's inputs
NoRuleFires ==
    LET t == call.transaction
    IN  /\ ~ (t.avg_amount_24h.num > 0 /\ t.amount * t.avg_amount_24h.den > 3 * t.avg_amount_24h.num)
        /\ ~ (t.amount > 1000)
        /\ ~ (t.txn_count_1h > 5)
        /\ ~ (t.merchant_metadata.risk_score > 70)
        /\ t.merchant_metadata.is_verified
        /\ ~ (t.user_metadata.account_age_days < 30)
        /\ t.user_metadata.is_verified
        /\ ~ call.geographic

\* C10: _identify_risk_factors returns at least one entry; when no rule
\* fires it returns exactly the sentinel; the sentinel never comes with
\* another factor.
C10_ExplainerNonEmpty ==
    IsExplainCall =>
        /\ Len(ret.factors) >= 1
        /\ NoRuleFires => ret.factors = <<Sentinel>>
        /\ InList(Sentinel, ret.factors) => Len(ret.factors) = 1 /\ NoRuleFires

C10_Witness ==
    /\ IsExplainCall
    /\ NoRuleFires
    /\ ret.factors = <<"No specific risk factors identified">>

C10_WitnessFactors ==
    /\ IsExplainCall
    /\ Len(ret.factors) >= 3
    /\ ~ InList(Sentinel, ret.factors)

----------------------------------------------------------------------------
(* Properties of batch_predict *)

IsBatchCall   == call.op = "batch_predict"
BatchReturned == IsBatchCall /\ ret.next > Len(call.transactions)

IsErrorSlot(slot) ==
    /\ "error" \in DOMAIN slot
    /\ slot.is_fraud = "None"
    /\ DOMAIN slot \cap {"fraud_score", "xgboost_score", "autoencoder_score", "risk_level"} = {}

IsScoreSlot(slot) ==
    /\ "error" \notin DOMAIN slot
    /\ "fraud_score" \in DOMAIN slot
    /\ slot.is_fraud \in {"True", "False"}

\* C8: batch_predict on N transactions returns exactly N slots and slot i
\* carries the transaction_id of input i, whichever items fail.
C8_BatchOrderCount ==
    BatchReturned =>
        /\ Len(ret.results) = Len(call.transactions)
        /\ \A i \in 1..Len(call.transactions) :
               /\ i <= Len(ret.results)
               /\ ret.results[i].transaction_id =
                      (IF "transaction_id" \in call.transactions[i].keys
                       THEN call.transactions[i].transaction_id ELSE "UNKNOWN")

\* a returned batch of two with different ids whose first item failed
C8_Witness ==
    /\ BatchReturned
    /\ Len(call.transactions) = 2
    /\ call.transactions[1] \in Malformed
    /\ call.transactions[2] \in WellFormed
    /\ ret.results[1].transaction_id = "T2"
    /\ ret.results[2].transaction_id = "T1"

\* C9: when predict fails on an item, batch_predict does not stop: the item
\* gets a slot with an error indicator, no scores and is_fraud None, and
\* every later item is still processed (an acceptable later item gets its
\* scores and its record is appended to its user's history).
C9_BatchFailureIsolation ==
    BatchReturned =>
        \A i \in 1..Len(call.transactions) :
            call.transactions[i] \in Malformed =>
                /\ i <= Len(ret.results)
                /\ IsErrorSlot(ret.results[i])
                /\ \A j \in (i + 1)..Len(call.transactions) :
                       /\ j <= Len(ret.results)
                       /\ (call.transactions[j] \notin Malformed
                           /\ ret.draws[j].scorer = "ok") =>
                              /\ IsScoreSlot(ret.results[j])
                              /\ LogFor(call.transactions[j].user_id) # Empty

\* the first item failed after the caches were touched, the second was scored
C9_Witness ==
    /\ BatchReturned
    /\ Len(call.transactions) = 2
    /\ ~ Has(call.transactions[1], "user_id")
    /\ call.transactions[2] \in WellFormed
    /\ IsErrorSlot(ret.results[1])
    /\ IsScoreSlot(ret.results[2])
    /\ Len(LogFor(call.transactions[2].user_id)) = 1

----------------------------------------------------------------------------
(* Properties of the metadata caches *)

PredictReturned == call.op = "predict" /\ ret.kind = "result"

\* every entry of the cache is still there with the same value after the step
Kept(cache, cacheAfter) ==
    \A id \in DOMAIN cache : id \in DOMAIN cacheAfter /\ cacheAfter[id] = cache[id]

\* C11: once metadata is stored for a user id or a merchant id, no step
\* refreshes, replaces, changes or removes it, and a later enrichment for
\* that id hands back the value that was stored.
C11_CacheStability ==
    [][/\ Kept(user_metadata, user_metadata')
       /\ Kept(merchant_metadata, merchant_metadata')
       /\ (calls' = calls + 1 /\ call'.op = "predict" /\ ret'.kind = "result") =>
              LET txn == call'.transaction
                  uid == txn.user_id
                  mid == IF "merchant_id" \in txn.keys THEN txn.merchant_id ELSE NoneKey
              IN  /\ uid \in DOMAIN user_metadata =>
                         ret'.enriched.user_metadata = user_metadata[uid]
                  /\ mid \in DOMAIN merchant_metadata =>
                         ret'.enriched.merchant_metadata = merchant_metadata[mid]
                  /\ ret'.enriched.user_metadata = user_metadata'[uid]
                  /\ ret'.enriched.merchant_metadata = merchant_metadata'[mid]]_vars

\* a second predict for a user and a merchant that both had stored metadata
C11_Witness ==
    /\ PredictReturned
    /\ calls = 2
    /\ Len(LogFor(call.transaction.user_id)) = 2
    /\ LogFor(call.transaction.user_id)[1].merchant_id = call.transaction.merchant_id
    /\ ret.enriched.user_metadata = user_metadata[call.transaction.user_id]

----------------------------------------------------------------------------
(* SpecThreads: two method calls on one detector, each in its own thread,  *)
(* interleaved between statements.  No method of the detector takes a      *)
(* lock, so every interleaving of the statements below can happen.         *)

ThreadIds == {"A", "B"}

\* d[k] = v on a dict (or a local variable k of a thread set to v)
Put(d, k, v) == [x \in DOMAIN d \cup {k} |-> IF x = k THEN v ELSE d[x]]

\* history = self.transaction_history[user_id] names a list object: the
\* local follows in-place appends to that object until the dict entry is
\* bound to a new list, and keeps the old object from then on
Unbound == [bound |-> FALSE]
Alias   == [bound |-> TRUE, alias |-> TRUE]
Detached(list) == [bound |-> TRUE, alias |-> FALSE, list |-> list]

Deref(th, user_id, history) ==
    IF history.alias THEN th[user_id] ELSE history.list

\* the dict entry of user_id is bound to a new list: the readers that hold
\* the old list keep it
Detach(ths, user_id, old) ==
    [x \in DOMAIN ths |->
        IF /\ ths[x].op = "calculate_velocity_features"
           /\ ths[x].user_id = user_id
           /\ ths[x].history.bound
           /\ ths[x].history.alias
        THEN [ths[x] EXCEPT !.history = Detached(old)]
        ELSE ths[x]]

EnrichCall(user_id, merchant_id, d) ==
    [op |-> "enrich_transaction", pc |-> "check_user",
     user_id |-> user_id, merchant_id |-> merchant_id,
     fresh_user |-> d.user_meta, fresh_merchant |-> d.merchant_meta]

UpdateCall(user_id, rec) ==
    [op |-> "update_transaction_history", pc |-> "check",
     user_id |-> user_id, transaction |-> rec]

VelocityCall(user_id, current_time) ==
    [op |-> "calculate_velocity_features", pc |-> "check",
     user_id |-> user_id, current_time |-> current_time, history |-> Unbound]

ThreadCalls ==
    {EnrichCall("U1", "M1", d) : d \in DrawProfiles}
    \cup {UpdateCall("U1", HistoryRecord(1, 100, "M1")),
          UpdateCall("U1", HistoryRecord(170, 400, "M1"))}
    \cup {VelocityCall("U1", t) : t \in {0, 170}}

\* the detector when the two threads start: new, or after one predict
ThreadStores ==
    {[transaction_history |-> Empty, user_metadata |-> Empty,
      merchant_metadata |-> Empty],
     [transaction_history |-> [u \in {"U1"} |-> <<HistoryRecord(0, 100, "M1")>>],
      user_metadata |-> [u \in {"U1"} |-> UserMeta(30, TRUE)],
      merchant_metadata |-> [m \in {"M1"} |-> MerchantMeta(20, TRUE)]]}

InitThreads ==
    /\ \E s \in ThreadStores :
          /\ transaction_history = s.transaction_history
          /\ user_metadata = s.user_metadata
          /\ merchant_metadata = s.merchant_metadata
          /\ appended = s.transaction_history
          /\ call = [op |-> "threads", started |-> s]
    /\ config = DefaultConfig
    /\ ret = NoRet
    /\ calls = 0
    /\ threads \in [ThreadIds -> ThreadCalls]
    /\ stats = ZeroStats

At(t, op, pc) == threads[t].op = op /\ threads[t].pc = pc

(* enrich_transaction, lines 91-118 *)

EnrichCheckUser(t) ==
    LET me == threads[t]
    IN  /\ At(t, "enrich_transaction", "check_user")
        /\ threads' = [threads EXCEPT ![t] =
               IF me.user_id \in DOMAIN user_metadata
               THEN Put(Put(me, "enriched_user", user_metadata[me.user_id]),
                        "pc", "check_merchant")
               ELSE Put(me, "pc", "store_user")]
        /\ UNCHANGED <<transaction_history, user_metadata, merchant_metadata,
                       config, appended, call, ret, calls, stats>>

EnrichStoreUser(t) ==
    LET me == threads[t]
    IN  /\ At(t, "enrich_transaction", "store_user")
        /\ user_metadata' = Put(user_metadata, me.user_id, me.fresh_user)
        /\ threads' = [threads EXCEPT ![t] =
               Put(Put(me, "enriched_user", me.fresh_user), "pc", "check_merchant")]
        /\ UNCHANGED <<transaction_history, merchant_metadata,
                       config, appended, call, ret, calls, stats>>

EnrichCheckMerchant(t) ==
    LET me == threads[t]
    IN  /\ At(t, "enrich_transaction", "check_merchant")
        /\ threads' = [threads EXCEPT ![t] =
               IF me.merchant_id \in DOMAIN merchant_metadata
               THEN Put(Put(me, "enriched_merchant", merchant_metadata[me.merchant_id]),
                        "pc", "done")
               ELSE Put(me, "pc", "store_merchant")]
        /\ UNCHANGED <<transaction_history, user_metadata, merchant_metadata,
                       config, appended, call, ret, calls, stats>>

EnrichStoreMerchant(t) ==
    LET me == threads[t]
    IN  /\ At(t, "enrich_transaction", "store_merchant")
        /\ merchant_metadata' = Put(merchant_metadata, me.merchant_id, me.fresh_merchant)
        /\ threads' = [threads EXCEPT ![t] =
               Put(Put(me, "enriched_merchant", me.fresh_merchant), "pc", "done")]
        /\ UNCHANGED <<transaction_history, user_metadata,
                       config, appended, call, ret, calls, stats>>

(* update_transaction_history, lines 166-180 *)

UpdateCheck(t) ==
    LET me == threads[t]
    IN  /\ At(t, "update_transaction_history", "check")
        /\ threads' = [threads EXCEPT ![t] =
               Put(me, "pc", IF me.user_id \notin DOMAIN transaction_history
                             THEN "create" ELSE "append")]
        /\ UNCHANGED <<transaction_history, user_metadata, merchant_metadata,
                       config, appended, call, ret, calls, stats>>

UpdateCreate(t) ==
    LET me  == threads[t]
        old == IF me.user_id \in DOMAIN transaction_history
               THEN transaction_history[me.user_id] ELSE Empty
    IN  /\ At(t, "update_transaction_history", "create")
        /\ transaction_history' = Put(transaction_history, me.user_id, Empty)
        /\ threads' = [Detach(threads, me.user_id, old) EXCEPT ![t] =
               Put(me, "pc", "append")]
        /\ UNCHANGED <<user_metadata, merchant_metadata,
                       config, appended, call, ret, calls, stats>>

UpdateAppend(t) ==
    LET me == threads[t]
    IN  /\ At(t, "update_transaction_history", "append")
        /\ transaction_history' =
               [transaction_history EXCEPT ![me.user_id] = Append(@, me.transaction)]
        /\ appended' = LogAppend(appended, me.user_id, me.transaction)
        /\ threads' = [threads EXCEPT ![t] = Put(me, "pc", "filter")]
        /\ UNCHANGED <<user_metadata, merchant_metadata, config, call, ret, calls, stats>>

UpdateFilter(t) ==
    LET me     == threads[t]
        cutoff == me.transaction.timestamp - Retention
    IN  /\ At(t, "update_transaction_history", "filter")
        /\ threads' = [threads EXCEPT ![t] =
               Put(Put(me, "filtered",
                       Filter(transaction_history[me.user_id], cutoff, 1)),
                   "pc", "assign")]
        /\ UNCHANGED <<transaction_history, user_metadata, merchant_metadata,
                       config, appended, call, ret, calls, stats>>

UpdateAssign(t) ==
    LET me == threads[t]
    IN  /\ At(t, "update_transaction_history", "assign")
        /\ transaction_history' =
               [transaction_history EXCEPT ![me.user_id] = me.filtered]
        /\ threads' = [Detach(threads, me.user_id, transaction_history[me.user_id])
                         EXCEPT ![t] = Put(me, "pc", "done")]
        /\ UNCHANGED <<user_metadata, merchant_metadata,
                       config, appended, call, ret, calls, stats>>

(* calculate_velocity_features, lines 131-162 *)

VelocityCheck(t) ==
    LET me == threads[t]
    IN  /\ At(t, "calculate_velocity_features", "check")
        /\ threads' = [threads EXCEPT ![t] =
               IF me.user_id \notin DOMAIN transaction_history
               THEN Put(Put(me, "result", ZeroVelocity), "pc", "done")
               ELSE Put(me, "pc", "history")]
        /\ UNCHANGED <<transaction_history, user_metadata, merchant_metadata,
                       config, appended, call, ret, calls, stats>>

VelocityBind(t) ==
    LET me == threads[t]
    IN  /\ At(t, "calculate_velocity_features", "history")
        /\ threads' = [threads EXCEPT ![t] =
               Put(Put(me, "history", Alias), "pc", "txns_1h")]
        /\ UNCHANGED <<transaction_history, user_metadata, merchant_metadata,
                       config, appended, call, ret, calls, stats>>

\* one of the three list comprehensions of lines 150-152
VelocityWindow(t, window, duration, then) ==
    LET me      == threads[t]
        history == Deref(transaction_history, me.user_id, me.history)
    IN  /\ At(t, "calculate_velocity_features", window)
        /\ threads' = [threads EXCEPT ![t] =
               Put(Put(me, window, WindowFilter(history, me.current_time, duration)),
                   "pc", then)]
        /\ UNCHANGED <<transaction_history, user_metadata, merchant_metadata,
                       config, appended, call, ret, calls, stats>>

VelocityReturn(t) ==
    LET me == threads[t]
    IN  /\ At(t, "calculate_velocity_features", "return")
        /\ threads' = [threads EXCEPT ![t] =
               Put(Put(me, "result",
                       VelocityResult(me.txns_1h, me.txns_24h, me.txns_7d)),
                   "pc", "done")]
        /\ UNCHANGED <<transaction_history, user_metadata, merchant_metadata,
                       config, appended, call, ret, calls, stats>>

NextThreads ==
    \E t \in ThreadIds :
        \/ EnrichCheckUser(t)
        \/ EnrichStoreUser(t)
        \/ EnrichCheckMerchant(t)
        \/ EnrichStoreMerchant(t)
        \/ UpdateCheck(t)
        \/ UpdateCreate(t)
        \/ UpdateAppend(t)
        \/ UpdateFilter(t)
        \/ UpdateAssign(t)
        \/ VelocityCheck(t)
        \/ VelocityBind(t)
        \/ VelocityWindow(t, "txns_1h", OneHour, "txns_24h")
        \/ VelocityWindow(t, "txns_24h", OneDay, "txns_7d")
        \/ VelocityWindow(t, "txns_7d", SevenDays, "return")
        \/ VelocityReturn(t)

SpecThreads == InitThreads /\ [][NextThreads]_vars

----------------------------------------------------------------------------
(* Properties of concurrent calls *)

Finished == \A t \in ThreadIds : threads[t].pc = "done"

BothCall(op) == \A t \in ThreadIds : threads[t].op = op

\* C12: two concurrent enrich_transaction calls for the same id that was not
\* stored end with one stored value, and both callers hold that value.
C12_Original ==
    (/\ BothCall("enrich_transaction")
     /\ threads["A"].user_id = threads["B"].user_id
     /\ threads["A"].merchant_id = threads["B"].merchant_id
     /\ threads["A"].user_id \notin DOMAIN call.started.user_metadata
     /\ Finished) =>
        /\ threads["A"].enriched_user = user_metadata[threads["A"].user_id]
        /\ threads["B"].enriched_user = user_metadata[threads["A"].user_id]
        /\ threads["A"].enriched_merchant = merchant_metadata[threads["A"].merchant_id]
        /\ threads["B"].enriched_merchant = merchant_metadata[threads["A"].merchant_id]

\* the history dict after the two appends made one after the other
Serial(th, first, second) ==
    update_transaction_history(
        update_transaction_history(th, first.user_id, first.transaction),
        second.user_id, second.transaction)

\* C13: two concurrent update_transaction_history calls for one user leave
\* the history that one of the two serial orders of the calls leaves.
C13_Original ==
    (/\ BothCall("update_transaction_history")
     /\ threads["A"].user_id = threads["B"].user_id
     /\ Finished) =>
        \/ transaction_history =
               Serial(call.started.transaction_history, threads["A"], threads["B"])
        \/ transaction_history =
               Serial(call.started.transaction_history, threads["B"], threads["A"])

\* the reader's result is the one computed on the history as it was before
\* the writer's call or as it is after it
SeesBeforeOrAfter(reader, writer) ==
    LET before == call.started.transaction_history
        after  == update_transaction_history(before, writer.user_id, writer.transaction)
    IN  \/ reader.result =
               calculate_velocity_features(before, reader.user_id, reader.current_time)
        \/ reader.result =
               calculate_velocity_features(after, reader.user_id, reader.current_time)

\* C14: a velocity computation that races with an update for the same user
\* returns the statistics of the history before the update or of the
\* history after its append and eviction, never of a state in between.
C14_Original ==
    \A r, w \in ThreadIds :
        (/\ threads[r].op = "calculate_velocity_features"
         /\ threads[w].op = "update_transaction_history"
         /\ threads[r].user_id = threads[w].user_id
         /\ Finished) => SeesBeforeOrAfter(threads[r], threads[w])

----------------------------------------------------------------------------
(* Properties of predict on bad input *)

\* the input errors: a timestamp that does not parse, an amount that is not
\* positive, no user id
InputError(txn) ==
    \/ Has(txn, "timestamp") /\ txn.timestamp.kind = "bad"
    \/ Has(txn, "amount") /\ txn.amount <= 0
    \/ ~ Has(txn, "user_id")

\* C15: predict on a transaction with an input error raises and leaves the
\* history store and the two metadata caches as they were.
C15_Original ==
    [][(calls' = calls + 1 /\ call'.op = "predict" /\ InputError(call'.transaction)) =>
           /\ ret'.kind = "raised"
           /\ UNCHANGED <<transaction_history, user_metadata, merchant_metadata>>]_vars

----------------------------------------------------------------------------
(* Properties of the predict pipeline *)

HighVelocity == "High velocity spending (>5 txns/hour)"

\* the user of the last predict call had exactly six transactions stored,
\* all of them within the hour before the call's timestamp
SixInLastHour ==
    LET log == LogFor(call.transaction.user_id)
        now == ret.result.timestamp
    IN  /\ PredictReturned
        /\ Len(log) = 7
        /\ Len(StoredFor(call.transaction.user_id)) = 7
        /\ \A i \in 1..6 : log[i].timestamp >= now - OneHour /\ log[i].timestamp <= now

\* C16 as stated: with six transactions of the user stored in the last hour,
\* the velocity statistics computed for the seventh report txn_count_1h = 7
\* and the risk factors include the high-velocity factor.
C16_Original ==
    SixInLastHour =>
        /\ ret.velocity.txn_count_1h = 7
        /\ InList(HighVelocity, ret.result.risk_factors)

\* C16 amended: with six transactions of the user stored in the last hour,
\* the velocity statistics computed for the seventh report txn_count_1h = 6
\* (the seventh is not yet appended) and the risk factors include the
\* high-velocity factor.
C16_VelocityScenario ==
    SixInLastHour =>
        /\ ret.velocity.txn_count_1h = 6
        /\ InList(HighVelocity, ret.result.risk_factors)

\* the seventh transaction of the hour has been scored
C16_Witness ==
    /\ SixInLastHour
    /\ calls = 7
    /\ ret.velocity.txn_count_1h = 6

\* the log of the user of the last predict call without the call's own record
Earlier ==
    LET log == LogFor(call.transaction.user_id)
    IN  SubSeq(log, 1, Len(log) - 1)

\* C18: predict runs enrich, velocity, features, scores, decide, explain,
\* append, return in that order; the append comes after the velocity
\* computation, so the velocity statistics of a call count only records of
\* earlier calls, never the call's own transaction; a call that raises has
\* run a prefix of these steps that stops before the append completes.
C18_PipelineOrder ==
    call.op = "predict" =>
        /\ ret.kind = "result" =>
              /\ ret.steps = Pipeline
              /\ \A d \in Windows :
                    LET keep == {i \in NotOlderThan(Earlier, ret.result.timestamp - d) :
                                     Survives(Earlier, i)}
                    IN  /\ Counted(d) = Pick(Earlier, keep, 1)
                        /\ CountOf(d) = Cardinality(keep)
        /\ ret.kind = "raised" =>
              /\ Len(ret.steps) < 7
              /\ ret.steps = SubSeq(Pipeline, 1, Len(ret.steps))

\* a user's first transaction is scored with all velocity counts at zero
C18_Witness ==
    /\ PredictReturned
    /\ Len(LogFor(call.transaction.user_id)) = 1
    /\ ret.velocity.txn_count_7d = 0
    /\ ret.steps[2] = "velocity" /\ ret.steps[7] = "append"

\* a user's second transaction counts the first and not itself
C18_WitnessSecond ==
    /\ PredictReturned
    /\ Len(LogFor(call.transaction.user_id)) = 2
    /\ ret.velocity.txn_count_7d = 1

----------------------------------------------------------------------------
(* Properties of the decision: the default configuration, inverted thresholds *)

Decided(xgboost_score, autoencoder_score) ==
    /\ IsDecideCall
    /\ call.xgboost_score = xgboost_score
    /\ call.autoencoder_score = autoencoder_score

\* C17: with weights 0.7 / 0.3 and thresholds 0.5 / 0.75, scores 0.9 and 0.2
\* give ensemble 0.69, level MEDIUM and is_fraud true; scores 0.95 and 0.9
\* give ensemble 0.935 and level HIGH.
C17_DefaultScenarios ==
    config = DefaultConfig =>
        /\ Decided(90, 20) =>
              /\ ret.result.fraud_score = 6900
              /\ ret.result.risk_level = "MEDIUM"
              /\ ret.result.is_fraud
        /\ Decided(95, 90) =>
              /\ ret.result.fraud_score = 9350
              /\ ret.result.risk_level = "HIGH"

C17_Witness ==
    /\ config = DefaultConfig
    /\ Decided(90, 20)
    /\ ret.result.risk_level = "MEDIUM"

C17_WitnessHigh ==
    /\ config = DefaultConfig
    /\ Decided(95, 90)
    /\ ret.result.risk_level = "HIGH"

Inverted == config.high_risk_threshold < config.fraud_threshold

\* C19 as stated: with high_risk_threshold < fraud_threshold the decision is
\* returned and the level is MEDIUM whenever ensemble >= fraud_threshold.
C19_Original ==
    (IsDecideCall /\ Inverted /\ WeightedSum >= config.fraud_threshold * 100) =>
        ret.kind = "decision" /\ ret.result.risk_level = "MEDIUM"

\* C19 amended: with high_risk_threshold < fraud_threshold the decision is
\* returned, the level is HIGH whenever ensemble >= fraud_threshold (indeed
\* whenever ensemble >= high_risk_threshold) and is never MEDIUM.
C19_InvertedThresholds ==
    (IsDecideCall /\ Inverted) =>
        /\ ret.kind = "decision"
        /\ WeightedSum >= config.fraud_threshold * 100 =>
               ret.result.risk_level = "HIGH" /\ ret.result.is_fraud
        /\ ret.result.risk_level = "HIGH" <=>
               WeightedSum >= config.high_risk_threshold * 100
        /\ ret.result.risk_level # "MEDIUM"

\* inverted thresholds and an ensemble score at or above the fraud threshold
C19_Witness ==
    /\ IsDecideCall
    /\ Inverted
    /\ WeightedSum >= config.fraud_threshold * 100
    /\ ret.result.risk_level = "HIGH"

\* inverted thresholds and an ensemble score between the two: HIGH, not fraud
C19_WitnessBetween ==
    /\ IsDecideCall
    /\ Inverted
    /\ WeightedSum < config.fraud_threshold * 100
    /\ ret.result.risk_level = "HIGH"
    /\ ~ ret.result.is_fraud

----------------------------------------------------------------------------
(* Properties of the explainer: two evaluations *)

\* C20: two evaluations of _identify_risk_factors on the same enriched
\* transaction, velocity statistics and metadata return the same list.
C20_Original ==
    (IsExplainCall /\ ret.before.kind = "factors") =>
        ret.factors = ret.before.factors

----------------------------------------------------------------------------
(* Properties of the explainer: the order of the rules *)

OverAverage(t) ==
    t.avg_amount_24h.num > 0 /\ t.amount * t.avg_amount_24h.den > 3 * t.avg_amount_24h.num

\* the factors of the seven rules in rule order, the second rule firing
\* when secondFires holds
SevenRules(t, secondFires) ==
    When(OverAverage(t), "Unusual transaction amount (3x average)")
    \o When(secondFires, "High transaction amount")
    \o When(t.txn_count_1h > 5, "High velocity spending (>5 txns/hour)")
    \o When(t.merchant_metadata.risk_score > 70, "High-risk merchant")
    \o When(~ t.merchant_metadata.is_verified, "Unverified merchant")
    \o When(t.user_metadata.account_age_days < 30, "New user account (<30 days)")
    \o When(~ t.user_metadata.is_verified, "Unverified user account")

IsRuleFactor(factor) ==
    factor \notin {Sentinel, "Geographic anomaly detected"}

\* what the seven rules contributed to the list the last call returned
RuleFactors == SelectSeq(ret.factors, IsRuleFactor)

\* C21 as stated: the seven rules contribute in their fixed order, each one
\* string exactly when its own test holds, whatever the other rules did.
C21_Original ==
    IsExplainCall =>
        RuleFactors = SevenRules(call.transaction, call.transaction.amount > 1000)

\* C21 amended: the seven rules contribute in their fixed order, each one
\* string exactly when its own test holds, except that the amount-over-1000
\* rule contributes only when the 3x-average rule did not fire.
C21_RuleOrder ==
    IsExplainCall =>
        RuleFactors = SevenRules(call.transaction,
                                 call.transaction.amount > 1000
                                     /\ ~ OverAverage(call.transaction))

\* an amount over 1000 and over three times the average: one amount factor,
\* followed by the factors of later rules
C21_Witness ==
    /\ IsExplainCall
    /\ OverAverage(call.transaction)
    /\ call.transaction.amount > 1000
    /\ Len(RuleFactors) >= 3
    /\ RuleFactors[1] = "Unusual transaction amount (3x average)"
    /\ RuleFactors[2] = "High velocity spending (>5 txns/hour)"

----------------------------------------------------------------------------
(* Properties of the velocity windows: the right end, the nesting *)

\* C22: a stored record whose timestamp is later than the now passed to
\* calculate_velocity_features is counted in none of the three windows.
C22_Original ==
    IsVelocityCall =>
        \A d \in Windows :
            \A i \in 1..Len(Counted(d)) :
                Counted(d)[i].timestamp <= call.current_time

\* C26: with non-negative amounts, the counts and the totals of the three
\* windows are nested: 1h <= 24h <= 7d.
C26_NestedWindows ==
    IsVelocityCall =>
        /\ ret.velocity.txn_count_1h <= ret.velocity.txn_count_24h
        /\ ret.velocity.txn_count_24h <= ret.velocity.txn_count_7d
        /\ ret.velocity.total_amount_1h <= ret.velocity.total_amount_24h
        /\ ret.velocity.total_amount_24h <= ret.velocity.total_amount_7d

\* two stored records, one within the day and one only within the week
C26_Witness ==
    /\ IsVelocityCall
    /\ ret.velocity.txn_count_1h = 0
    /\ ret.velocity.txn_count_24h = 1
    /\ ret.velocity.txn_count_7d = 2
    /\ ret.velocity.total_amount_24h < ret.velocity.total_amount_7d

----------------------------------------------------------------------------
(* Properties of predict: what a call leaves alone *)

\* every entry of the dict under a key other than id is kept as it is, and
\* no key other than id is added
OthersKept(dict, dictAfter, id) ==
    /\ \A k \in DOMAIN dict \ {id} : k \in DOMAIN dictAfter /\ dictAfter[k] = dict[k]
    /\ DOMAIN dictAfter \subseteq DOMAIN dict \cup {id}

\* C23: a predict call for a user, returning or raising, alone or as an item
\* of a batch, leaves the history and the metadata of every other user and
\* the metadata of every merchant but the transaction's own as they were.
C23_CrossEntityIsolation ==
    [][calls' = calls + 1 =>
          LET txn == IF call'.op = "predict" THEN call'.transaction
                     ELSE call.transactions[ret.next]
              uid == Get(txn, "user_id", NoneKey)
              mid == Get(txn, "merchant_id", NoneKey)
          IN  /\ OthersKept(transaction_history, transaction_history', uid)
              /\ OthersKept(user_metadata, user_metadata', uid)
              /\ OthersKept(merchant_metadata, merchant_metadata', mid)]_vars

\* a second call, for another user and another merchant than the first,
\* more than seven days later: the first user's record is still stored
C23_Witness ==
    /\ PredictReturned
    /\ calls = 2
    /\ \E u \in DOMAIN transaction_history \ {call.transaction.user_id} :
           /\ Len(transaction_history[u]) = 1
           /\ transaction_history[u][1].timestamp < ret.result.timestamp - Retention
           /\ u \in DOMAIN user_metadata
    /\ \E m \in DOMAIN merchant_metadata : m # call.transaction.merchant_id

\* a call that raised after another user's call
C23_WitnessRaised ==
    /\ call.op = "predict"
    /\ ret.kind = "raised"
    /\ calls = 2
    /\ \E u \in DOMAIN transaction_history : Len(transaction_history[u]) = 1

\* how many times rec is stored in the list
Occurrences(list, rec) == Cardinality({i \in 1..Len(list) : list[i] = rec})

ListOf(dict, id) == IF id \in DOMAIN dict THEN dict[id] ELSE Empty

\* C27: a predict call (alone or as an item of a batch) that fails before
\* its history update - at the timestamp, in the enrichment, in the
\* velocity or feature step, or because a model throws - leaves the
\* transaction history as it was; and a call records a transaction only
\* when it returns a result after the whole pipeline, and then it records
\* that transaction once, for its own user.
C27_HistoryWrittenLast ==
    [][calls' = calls + 1 =>
          LET alone  == call'.op = "predict"
              txn    == IF alone THEN call'.transaction
                        ELSE call.transactions[ret.next]
              uid    == Get(txn, "user_id", NoneKey)
              slot   == ret'.results[Len(ret'.results)]
              early  == IF alone
                        THEN ret'.kind = "raised" /\ Len(ret'.steps) < 6
                        ELSE /\ IsErrorSlot(slot)
                             /\ (Has(txn, "amount") \/ ~ Has(txn, "user_id"))
              scored == IF alone
                        THEN ret'.kind = "result" /\ ret'.steps = Pipeline
                        ELSE IsScoreSlot(slot)
          IN  /\ early => /\ transaction_history' = transaction_history
                          /\ appended' = appended
              /\ (\E u \in DOMAIN transaction_history' :
                      \E i \in 1..Len(transaction_history'[u]) :
                          Occurrences(transaction_history'[u], transaction_history'[u][i])
                              > Occurrences(ListOf(transaction_history, u),
                                            transaction_history'[u][i]))
                  \/ appended' # appended
                  => /\ scored
                     /\ Len(ListOf(appended', uid)) = Len(ListOf(appended, uid)) + 1
                     /\ LET rec == ListOf(appended', uid)[Len(ListOf(appended', uid))]
                        IN  /\ rec.amount = txn.amount
                            /\ Occurrences(transaction_history'[uid], rec)
                                   = Occurrences(ListOf(transaction_history, uid), rec) + 1
                            /\ \A other \in DOMAIN transaction_history' :
                                   \A i \in 1..Len(transaction_history'[other]) :
                                       LET r == transaction_history'[other][i]
                                       IN  (other # uid \/ r # rec) =>
                                               Occurrences(transaction_history'[other], r)
                                                   <= Occurrences(ListOf(transaction_history, other), r)]_vars

\* a model threw in the second call for a user whose first call was recorded
C27_Witness ==
    /\ call.op = "predict"
    /\ calls = 2
    /\ ret.kind = "raised"
    /\ ret.error = "Exception"
    /\ Len(ret.steps) = 3
    /\ Has(call.transaction, "user_id")
    /\ call.transaction.user_id \in DOMAIN transaction_history
    /\ Len(transaction_history[call.transaction.user_id]) = 1

\* a returned call whose transaction is stored twice: it was sent twice
C27_WitnessTwice ==
    /\ PredictReturned
    /\ calls = 2
    /\ Len(transaction_history[call.transaction.user_id]) = 2
    /\ transaction_history[call.transaction.user_id][1]
           = transaction_history[call.transaction.user_id][2]

\* the positions of all stored records
StoredSlots ==
    UNION {{<<u, i>> : i \in 1..Len(transaction_history[u])} :
               u \in DOMAIN transaction_history}

\* C28: after any sequence of predict and batch_predict calls every user id
\* with an entry in transaction_history has one in user_metadata, get_stats
\* reports users_with_history <= users_tracked, and its
\* total_historical_transactions is the number of records stored in all
\* the per-user lists.
C28_HistoryImpliesMetadata ==
    LET s == get_stats(transaction_history, user_metadata, merchant_metadata, config)
    IN  /\ DOMAIN transaction_history \subseteq DOMAIN user_metadata
        /\ s.users_with_history <= s.users_tracked
        /\ s.total_historical_transactions = Cardinality(StoredSlots)

\* after two calls: a user with a stored record, and a tracked user whose
\* call raised and who has no history
C28_Witness ==
    /\ call.op \in {"predict", "batch_predict"}
    /\ calls = 2
    /\ \E u \in DOMAIN transaction_history : Len(transaction_history[u]) = 1
    /\ DOMAIN user_metadata \ DOMAIN transaction_history # {}

\* after two calls of one user: two stored records
C28_WitnessTwo ==
    /\ call.op \in {"predict", "batch_predict"}
    /\ calls = 2
    /\ \E u \in DOMAIN transaction_history : Len(transaction_history[u]) = 2

----------------------------------------------------------------------------
(* Properties of batch_predict against predict called item by item *)

\* predict called on txns[k], txns[k+1], ... one after the other with the
\* draws the batch made, an exception of one call ignored by the caller
RECURSIVE Sequential(_, _, _, _)
Sequential(detector, txns, draws, k) ==
    IF k > Len(txns) THEN detector
    ELSE LET outcome == predict(detector.transaction_history, detector.user_metadata,
                                detector.merchant_metadata, detector.appended,
                                config, txns[k], draws[k])
         IN  Sequential([transaction_history |-> outcome.transaction_history,
                         user_metadata |-> outcome.user_metadata,
                         merchant_metadata |-> outcome.merchant_metadata,
                         appended |-> outcome.appended],
                        txns, draws, k + 1)

\* the earlier items of the batch that were scored, of the user of item k
\* and within seven days before item k
EarlierScored(k) ==
    {j \in 1..(k - 1) :
        /\ IsScoreSlot(ret.results[j])
        /\ call.transactions[j].user_id = call.transactions[k].user_id
        /\ ret.results[j].timestamp >= ret.results[k].timestamp - SevenDays}

\* the records the user of item k had when the batch began, within seven
\* days before item k
StoredAtStart(k) ==
    LET list == ListOf(ret.start.transaction_history, call.transactions[k].user_id)
    IN  {i \in 1..Len(list) :
            list[i].timestamp >= ret.results[k].timestamp - SevenDays}

\* C29: a returned batch_predict leaves transaction_history, user_metadata
\* and merchant_metadata as predict called on the same transactions in the
\* same order (with the same lookups and scores, failures ignored) leaves
\* them, and the 7-day count of a scored item counts the scored earlier
\* items of the batch of the same user.
C29_BatchEqualsSequential ==
    BatchReturned =>
        /\ LET after == Sequential(ret.start, call.transactions, ret.draws, 1)
           IN  /\ transaction_history = after.transaction_history
               /\ user_metadata = after.user_metadata
               /\ merchant_metadata = after.merchant_metadata
        /\ \A k \in 1..Len(call.transactions) :
               /\ k <= Len(ret.results)
               /\ IsScoreSlot(ret.results[k]) =>
                      ret.counted[k] = Cardinality(StoredAtStart(k))
                                           + Cardinality(EarlierScored(k))

\* a batch of two scored items of one user: the second counts the first
C29_Witness ==
    /\ BatchReturned
    /\ Len(call.transactions) = 2
    /\ IsScoreSlot(ret.results[1])
    /\ IsScoreSlot(ret.results[2])
    /\ call.transactions[1].user_id = call.transactions[2].user_id
    /\ ret.counted = <<0, 1>>
    /\ Len(transaction_history[call.transactions[1].user_id]) = 2

\* a batch of two whose first item raised after its metadata was stored
C29_WitnessFailure ==
    /\ BatchReturned
    /\ Len(call.transactions) = 2
    /\ IsErrorSlot(ret.results[1])
    /\ IsScoreSlot(ret.results[2])
    /\ ret.counted = <<-1, 0>>
    /\ user_metadata # ret.start.user_metadata

----------------------------------------------------------------------------
(* The statistics of the API server (api_server.py): update_stats runs as  *)
(* a background task of each request, reset_statistics is an endpoint.     *)
(* uptime_start, a clock reading, is left out of the dict.                 *)

\* the results handed to update_stats: a score result flagged or not, the
\* error slot of a batch, a dict with no is_fraud key
StatsResults ==
    {[transaction_id |-> "T1", is_fraud |-> "True", processing_time_ms |-> 10],
     [transaction_id |-> "T1", is_fraud |-> "False", processing_time_ms |-> 30],
     [transaction_id |-> "T2", error |-> "KeyError", is_fraud |-> "None"],
     [transaction_id |-> "T3"]}

\* result.get('is_fraud') taken as a condition
Flagged(result) == "is_fraud" \in DOMAIN result /\ result.is_fraud = "True"

\* result.get('processing_time_ms', 0)
ProcessingTime(result) ==
    IF "processing_time_ms" \in DOMAIN result THEN result.processing_time_ms ELSE 0

\* the counter the branch of lines 290-293 increments
CounterOf(result) ==
    IF Flagged(result) THEN "fraud_detected" ELSE "legitimate_transactions"

\* (current_avg * (n - 1) + new_time) / n
RunningAverage(current_avg, n, new_time) ==
    [num |-> current_avg.num * (n - 1) + new_time * current_avg.den,
     den |-> current_avg.den * n]

\* only the results that carry a verdict counted in one of the two counters
update_stats_SkipUnknown(st, result) ==
    LET n == st.total_requests + 1
        known == "is_fraud" \in DOMAIN result /\ result.is_fraud \in {"True", "False"}
    IN  [total_requests |-> n,
         fraud_detected |-> st.fraud_detected + (IF Flagged(result) THEN 1 ELSE 0),
         legitimate_transactions |->
             st.legitimate_transactions + (IF known /\ ~ Flagged(result) THEN 1 ELSE 0),
         avg_processing_time_ms |->
             RunningAverage(st.avg_processing_time_ms, n, ProcessingTime(result))]

\* the dict after update_stats(result), run alone
update_stats(st, result) ==
    LET n == st.total_requests + 1
    IN  [total_requests |-> n,
         fraud_detected |-> st.fraud_detected + (IF Flagged(result) THEN 1 ELSE 0),
         legitimate_transactions |->
             st.legitimate_transactions + (IF Flagged(result) THEN 0 ELSE 1),
         avg_processing_time_ms |->
             RunningAverage(st.avg_processing_time_ms, n, ProcessingTime(result))]

(* SpecStats: update_stats and reset_statistics, one call after another *)

InitStats ==
    /\ EmptyDetector
    /\ config = DefaultConfig

UpdateStats(result) ==
    /\ stats.total_requests < MaxStats
    /\ stats' = update_stats(stats, result)
    /\ call' = [op |-> "update_stats", result |-> result]
    /\ ret' = [kind |-> "stats", before |-> stats]
    /\ UNCHANGED <<transaction_history, user_metadata, merchant_metadata, config,
                   appended, calls, threads>>

ResetStatistics ==
    /\ stats' = ZeroStats
    /\ call' = [op |-> "reset_statistics"]
    /\ ret' = [kind |-> "message", before |-> stats]
    /\ UNCHANGED <<transaction_history, user_metadata, merchant_metadata, config,
                   appended, calls, threads>>

NextStats ==
    \/ \E result \in StatsResults : UpdateStats(result)
    \/ ResetStatistics

SpecStats == InitStats /\ [][NextStats]_vars

(* SpecStatsThreads: the update_stats tasks of two requests, each run by   *)
(* the server in a thread of its pool, interleaved between the loads and   *)
(* the stores of lines 288-299.                                            *)

StatsCall(result) ==
    [op |-> "update_stats", pc |-> "load_total", result |-> result]

\* the dict when the two tasks start: new, or after one flagged request
StatsStores ==
    {ZeroStats, update_stats(ZeroStats, CHOOSE r \in StatsResults : Flagged(r))}

InitStatsThreads ==
    /\ transaction_history = Empty
    /\ user_metadata = Empty
    /\ merchant_metadata = Empty
    /\ appended = Empty
    /\ config = DefaultConfig
    /\ ret = NoRet
    /\ calls = 0
    /\ \E st \in StatsStores :
          /\ stats = st
          /\ call = [op |-> "threads", started |-> [stats |-> st]]
    /\ threads \in [ThreadIds -> {StatsCall(r) : r \in StatsResults}]

StatsFrame ==
    UNCHANGED <<transaction_history, user_metadata, merchant_metadata, config,
                appended, call, ret, calls>>

\* stats['total_requests'] += 1, the load
StatsLoadTotal(t) ==
    LET me == threads[t]
    IN  /\ At(t, "update_stats", "load_total")
        /\ threads' = [threads EXCEPT ![t] =
               Put(Put(me, "loaded", stats.total_requests), "pc", "store_total")]
        /\ UNCHANGED stats
        /\ StatsFrame

\* stats['total_requests'] += 1, the store
StatsStoreTotal(t) ==
    LET me == threads[t]
    IN  /\ At(t, "update_stats", "store_total")
        /\ stats' = [stats EXCEPT !.total_requests = me.loaded + 1]
        /\ threads' = [threads EXCEPT ![t] = Put(me, "pc", "load_counter")]
        /\ StatsFrame

\* line 291 or 293, the load
StatsLoadCounter(t) ==
    LET me == threads[t]
    IN  /\ At(t, "update_stats", "load_counter")
        /\ threads' = [threads EXCEPT ![t] =
               Put(Put(me, "loaded", stats[CounterOf(me.result)]), "pc", "store_counter")]
        /\ UNCHANGED stats
        /\ StatsFrame

\* line 291 or 293, the store
StatsStoreCounter(t) ==
    LET me == threads[t]
    IN  /\ At(t, "update_stats", "store_counter")
        /\ stats' = [stats EXCEPT ![CounterOf(me.result)] = me.loaded + 1]
        /\ threads' = [threads EXCEPT ![t] = Put(me, "pc", "current_avg")]
        /\ StatsFrame

\* lines 296-297
StatsLoadAverage(t) ==
    LET me == threads[t]
    IN  /\ At(t, "update_stats", "current_avg")
        /\ threads' = [threads EXCEPT ![t] =
               Put(Put(me, "current_avg", stats.avg_processing_time_ms), "pc", "n")]
        /\ UNCHANGED stats
        /\ StatsFrame

\* line 298
StatsLoadN(t) ==
    LET me == threads[t]
    IN  /\ At(t, "update_stats", "n")
        /\ threads' = [threads EXCEPT ![t] =
               Put(Put(me, "n", stats.total_requests), "pc", "store_avg")]
        /\ UNCHANGED stats
        /\ StatsFrame

\* line 299
StatsStoreAverage(t) ==
    LET me == threads[t]
    IN  /\ At(t, "update_stats", "store_avg")
        /\ stats' = [stats EXCEPT !.avg_processing_time_ms =
               RunningAverage(me.current_avg, me.n, ProcessingTime(me.result))]
        /\ threads' = [threads EXCEPT ![t] = Put(me, "pc", "done")]
        /\ StatsFrame

NextStatsThreads ==
    \E t \in ThreadIds :
        \/ StatsLoadTotal(t)
        \/ StatsStoreTotal(t)
        \/ StatsLoadCounter(t)
        \/ StatsStoreCounter(t)
        \/ StatsLoadAverage(t)
        \/ StatsLoadN(t)
        \/ StatsStoreAverage(t)

SpecStatsThreads == InitStatsThreads /\ [][NextStatsThreads]_vars

----------------------------------------------------------------------------
(* Properties of the statistics *)

Counted2(st) == st.fraud_detected + st.legitimate_transactions

\* C24: when the update_stats tasks of two requests run concurrently, after
\* both complete total_requests has grown by exactly two and so has
\* fraud_detected + legitimate_transactions.
C24_Original ==
    Finished =>
        /\ stats.total_requests = call.started.stats.total_requests + 2
        /\ Counted2(stats) = Counted2(call.started.stats) + 2

IsStatsCall == call.op = "update_stats"

\* C30: whatever sequence of completed update_stats and reset_statistics
\* calls, total_requests = fraud_detected + legitimate_transactions; a
\* result whose is_fraud is missing or None adds one to
\* legitimate_transactions and nothing to fraud_detected.
C30_CounterConservation ==
    /\ stats.total_requests = Counted2(stats)
    /\ call.op = "reset_statistics" => stats.total_requests = 0
    /\ IsStatsCall =>
          /\ stats.total_requests = ret.before.total_requests + 1
          /\ ("is_fraud" \notin DOMAIN call.result \/ call.result.is_fraud = "None") =>
                /\ stats.legitimate_transactions = ret.before.legitimate_transactions + 1
                /\ stats.fraud_detected = ret.before.fraud_detected

\* the error slot of a batch counted after a flagged result
C30_Witness ==
    /\ IsStatsCall
    /\ "error" \in DOMAIN call.result
    /\ call.result.is_fraud = "None"
    /\ ret.before.fraud_detected = 1
    /\ stats.legitimate_transactions = 1
    /\ stats.total_requests = 2

\* a result without the is_fraud key counted after a reset
C30_WitnessMissing ==
    /\ IsStatsCall
    /\ "is_fraud" \notin DOMAIN call.result
    /\ stats.total_requests = 1
    /\ stats.legitimate_transactions = 1

----------------------------------------------------------------------------
(* The scorers: the two models of models/ and the rule-based scorer of     *)
(* api_server_demo.py.  Scores and noise are counted in hundredths.        *)

Min(a, b) == IF a <= b THEN a ELSE b
Max(a, b) == IF a >= b THEN a ELSE b

\* XGBoostFraudModel.predict_proba: random is np.random.random(), proba the
\* class probability the trained classifier returns
predict_proba(is_trained, random, proba) ==
    IF ~ is_trained THEN random ELSE proba

\* AutoencoderAnomalyDetector.predict_anomaly_score: the reconstruction
\* error is a mean of squares; threshold is None (is_none) or a number
predict_anomaly_score(is_trained, random, reconstruction_error, threshold) ==
    IF ~ is_trained THEN random
    ELSE IF ~ threshold.is_none /\ threshold.value > 0
         THEN Min((reconstruction_error * 100) \div threshold.value, 100)
         ELSE Min(reconstruction_error, 100)

\* detect_fraud_simple: merchant and geographic are the outcomes of the two
\* random tests, noise_x and noise_a the two random.uniform draws
detect_fraud_simple(amount, merchant, geographic, noise_x, noise_a) ==
    LET rules == (IF amount > 1000 THEN 30 ELSE 0)
                 + (IF amount > 2000 THEN 30 ELSE 0)
                 + (IF merchant THEN 20 ELSE 0)
                 + (IF geographic THEN 15 ELSE 0)
        factors == When(amount > 1000, "High transaction amount (>$1000)")
                   \o When(amount > 2000, "Very high transaction amount (>$2000)")
                   \o When(merchant, "Unusual merchant category")
                   \o When(geographic, "Geographic anomaly detected")
        xgboost_score     == Min(rules + noise_x, 100)
        autoencoder_score == Min(rules + noise_a, 100)
        fraud_score == Max(0, Min(10000, 70 * xgboost_score + 30 * autoencoder_score))
    IN  [fraud_score |-> fraud_score,
         xgboost_score |-> xgboost_score,
         autoencoder_score |-> autoencoder_score,
         is_fraud |-> PyBool(fraud_score >= 5000),
         risk_level |-> IF fraud_score >= 7500 THEN "HIGH"
                        ELSE IF fraud_score >= 5000 THEN "MEDIUM" ELSE "LOW",
         risk_factors |-> OrSentinel(factors)]

(* SpecScorers: each scorer applied to any input and any draw *)

RandomDraws  == {0, 50, 99}       \* np.random.random() lies in [0, 1)
Probas       == {0, 50, 100}
Errors       == {0, 25, 200}
ErrorLimits  == {[is_none |-> TRUE, value |-> 0], [is_none |-> FALSE, value |-> 0],
                 [is_none |-> FALSE, value |-> 50]}
DemoAmounts  == {100, 1000, 1500, 2500}
NoiseX       == {-10, 0, 10}      \* random.uniform(-0.1, 0.1)
NoiseA       == {-15, 0, 15}      \* random.uniform(-0.15, 0.15)

InitScorers ==
    /\ EmptyDetector
    /\ config = DefaultConfig

ScorerFrame ==
    UNCHANGED <<transaction_history, user_metadata, merchant_metadata, config,
                appended, calls, threads, stats>>

PredictProba(is_trained, random, proba) ==
    /\ call' = [op |-> "predict_proba", is_trained |-> is_trained]
    /\ ret' = [kind |-> "score", score |-> predict_proba(is_trained, random, proba)]
    /\ ScorerFrame

PredictAnomalyScore(is_trained, random, reconstruction_error, threshold) ==
    /\ call' = [op |-> "predict_anomaly_score", is_trained |-> is_trained,
                threshold |-> threshold]
    /\ ret' = [kind |-> "score",
               score |-> predict_anomaly_score(is_trained, random,
                                               reconstruction_error, threshold)]
    /\ ScorerFrame

DetectFraudSimple(amount, merchant, geographic, noise_x, noise_a) ==
    /\ call' = [op |-> "detect_fraud_simple", amount |-> amount]
    /\ ret' = [kind |-> "result",
               result |-> detect_fraud_simple(amount, merchant, geographic,
                                              noise_x, noise_a)]
    /\ ScorerFrame

NextScorers ==
    \/ \E trained \in BOOLEAN, r \in RandomDraws, p \in Probas :
           PredictProba(trained, r, p)
    \/ \E trained \in BOOLEAN, r \in RandomDraws, e \in Errors, l \in ErrorLimits :
           PredictAnomalyScore(trained, r, e, l)
    \/ \E a \in DemoAmounts, m \in BOOLEAN, g \in BOOLEAN, x \in NoiseX, y \in NoiseA :
           DetectFraudSimple(a, m, g, x, y)

SpecScorers == InitScorers /\ [][NextScorers]_vars

----------------------------------------------------------------------------
(* Properties of the scorers *)

InUnit(score) == 0 <= score /\ score <= 100

\* C25: every component score handed back lies in [0, 1]: the two models,
\* trained or not, and both scores of detect_fraud_simple.
C25_Original ==
    /\ call.op \in {"predict_proba", "predict_anomaly_score"} => InUnit(ret.score)
    /\ call.op = "detect_fraud_simple" =>
          InUnit(ret.result.xgboost_score) /\ InUnit(ret.result.autoencoder_score)

====
